---- MODULE Spec2Model ----
(***************************************************************************)
(* Model of uesm.h: the universal event functions (create_event,           *)
(* set_event, wait_for_event, close_event) and the universal shared memory *)
(* functions (create_shared_memory, map_shared_memory,                     *)
(* close_shared_memory), together with the part of the operating system    *)
(* they call: the name spaces of named semaphores / event objects and of   *)
(* shared memory objects, each process's table of handles and descriptors, *)
(* and each process's address space.                                       *)
(*                                                                         *)
(* The header is compiled either for POSIX or for Windows (#ifdef _WIN32); *)
(* the variable build holds which, chosen once in Init.  Every function is *)
(* one action (the blocking wait has a call step and two return steps);    *)
(* the record last holds the most recent call: its arguments, its return   *)
(* value and the operating system calls it made, in order.                 *)
(*                                                                         *)
(* Sizes and lengths are counted in pages.  A pointer is the number of the *)
(* page it points to, a descriptor or handle is its number; 0 is nullptr.  *)
(***************************************************************************)
EXTENDS Integers, Sequences, FiniteSets, TLC

\* ------------------------------------------------------------------ bounds
MaxSemObj == 2
MaxSemAddr == 1
MaxSemVal == 2
MaxSemRefs == 2
MaxShmObj == 1
MaxFd == 3
MaxPage == 1
MaxSize == 2
MaxCredit == 2

\* --------------------------------------------------------------- constants
\* INFINITE is ((unsigned int)-1), the word of all ones; it is written -1
\* here, and every other timeout is a number of milliseconds >= 0.
INFINITE == -1

Procs == {"P", "Q"}
Builds == {"posix", "win32"}
Names == {"n1"}
NullName == "nullptr"
EmptyName == ""
NameArgs == {NullName, EmptyName} \cup Names
\* The name given to a close function: none, or a name.
UnlinkArgs == {NullName} \cup Names
Timeouts == {100, INFINITE}

SemObjs == 1..MaxSemObj
SemAddrs == 1..MaxSemAddr
ShmObjs == 1..MaxShmObj
Fds == 0..MaxFd
Pages == 1..MaxPage
Sizes == 0..MaxSize
StdFds == {0, 1, 2}
Stdio == -1

VARIABLES
  build,     \* "posix" or "win32": the branch of #ifdef _WIN32 compiled
  pc,        \* per process: "idle", "blocked" (inside a wait) or "crashed"
  semName,   \* name -> semaphore / event object (0: no such name)
  semVal,    \* object -> its value (an event: 1 signaled, 0 not)
  semH,      \* per process: address / handle -> the object open there
  blk,       \* per process: the handle and timeout of the wait it is in
  quiet,     \* per process and handle: how create_event(name, false) got it
             \* ("created" or "attached"), until someone signals its object
  credit,    \* per event: 1 if it was created signaled, plus the successful
             \* set_event on it (counted up to MaxCredit), minus the waits
             \* on it that returned true
  shmName,   \* name -> shared memory object (0: no such name)
  shmSize,   \* object -> its size
  fdt,       \* per process: descriptor / handle -> the object open there
  pages,     \* per process: page -> the object mapped there, and the address
             \* the mapping it belongs to was made at
  closedS,   \* per process: the handles it has passed to close_shared_memory
  last,      \* the most recent call
  ts         \* the timed wait's clock reading, timeout and struct timespec

evVars == <<semName, semVal, semH, blk, quiet, credit>>
shmVars == <<shmName, shmSize, fdt, pages, closedS>>
vars == <<build, pc, semName, semVal, semH, blk, quiet, credit,
          shmName, shmSize, fdt, pages, closedS, last, ts>>

NoEnt == [obj |-> 0, refs |-> 0]
NoPage == [obj |-> 0, base |-> 0]
NoBlk == [h |-> 0, t |-> 0]
NoTs == [sec |-> 0, nsec |-> 0, q |-> 0, r |-> 0, timeout_ms |-> 0,
         tv_sec |-> 0, tv_nsec |-> 0, path |-> "none"]

Min(S) == CHOOSE x \in S : \A y \in S : x <= y

\* The record of one call of the interface.
Call(op, p, name, h, mapped, size, flag, timeout, ok, ret, outcome, os) ==
  [op |-> op, p |-> p, name |-> name, h |-> h, mapped |-> mapped,
   size |-> size, flag |-> flag, timeout |-> timeout, ok |-> ok,
   ret |-> ret, outcome |-> outcome, os |-> os]

EvCall(op, p, name, h, flag, timeout, ok, ret, outcome, os) ==
  Call(op, p, name, h, 0, 0, flag, timeout, ok, ret, outcome, os)

ShmCall(op, p, name, h, mapped, size, ret, outcome, os) ==
  Call(op, p, name, h, mapped, size, FALSE, 0, FALSE, ret, outcome, os)

\* ------------------------------------------------- the operating system
\* A semaphore / event object exists while it has a name or an open handle.
SemLive(o, names, tab) ==
  \/ \E n \in Names : names[n] = o
  \/ \E p \in Procs : \E a \in SemAddrs : tab[p][a].obj = o

\* Windows: a named object's name goes with its last handle.
SemNamesOf(names, tab) ==
  IF build = "win32"
  THEN [n \in Names |->
          IF \E p \in Procs : \E a \in SemAddrs : tab[p][a].obj = names[n]
          THEN names[n] ELSE 0]
  ELSE names

SemValsOf(vals, names, tab) ==
  [o \in SemObjs |-> IF SemLive(o, names, tab) THEN vals[o] ELSE 0]

\* The semaphores / event objects: names, values and handle tables.  After
\* every call the objects nothing refers to any more are gone.
SemNorm(names, vals, tab) ==
  [names |-> SemNamesOf(names, tab),
   vals |-> SemValsOf(vals, SemNamesOf(names, tab), tab),
   tab |-> tab]

SemState == [names |-> semName, vals |-> semVal, tab |-> semH]

SetSem(E) ==
  /\ semName' = E.names
  /\ semVal' = E.vals
  /\ semH' = E.tab

DeadSems(E) == {o \in SemObjs : ~SemLive(o, E.names, E.tab)}
FreeSemAddrs(E, p) == {a \in SemAddrs : E.tab[p][a].obj = 0}
AddrOfSem(E, p, o) == {a \in SemAddrs : E.tab[p][a].obj = o}
SemOf(E, p, h) == IF h \in SemAddrs THEN E.tab[p][h].obj ELSE 0

\* sem_open(name, O_CREAT, 0666, value): the addresses a successful call may
\* return.  An existing name is attached and value ignored; a second open of
\* the same semaphore by one process returns the same address.  The empty
\* name is refused (EINVAL).
sem_open_addrs(E, p, name) ==
  IF name \notin Names THEN {}
  ELSE IF E.names[name] # 0
  THEN IF AddrOfSem(E, p, E.names[name]) # {}
       THEN {a \in AddrOfSem(E, p, E.names[name]) : E.tab[p][a].refs < MaxSemRefs}
       ELSE FreeSemAddrs(E, p)
  ELSE IF DeadSems(E) = {} THEN {} ELSE FreeSemAddrs(E, p)

\* The state after sem_open returned address r.
sem_open(E, p, name, value, r) ==
  IF E.names[name] # 0
  THEN IF E.tab[p][r].obj = E.names[name]
       THEN SemNorm(E.names, E.vals, [E.tab EXCEPT ![p][r].refs = @ + 1])
       ELSE SemNorm(E.names, E.vals,
                    [E.tab EXCEPT ![p][r] = [obj |-> E.names[name], refs |-> 1]])
  ELSE LET o == Min(DeadSems(E)) IN
       SemNorm([E.names EXCEPT ![name] = o], [E.vals EXCEPT ![o] = value],
               [E.tab EXCEPT ![p][r] = [obj |-> o, refs |-> 1]])

\* CreateEventA(nullptr, FALSE, initial_state, name): the handles a
\* successful call may return.  An existing name is opened and initial_state
\* ignored; the empty name makes an object without a name.
CreateEventA_handles(E, p, name) ==
  IF name \in Names /\ E.names[name] # 0 THEN FreeSemAddrs(E, p)
  ELSE IF DeadSems(E) = {} THEN {} ELSE FreeSemAddrs(E, p)

CreateEventA(E, p, name, value, r) ==
  IF name \in Names /\ E.names[name] # 0
  THEN SemNorm(E.names, E.vals,
               [E.tab EXCEPT ![p][r] = [obj |-> E.names[name], refs |-> 1]])
  ELSE LET o == Min(DeadSems(E)) IN
       SemNorm(IF name \in Names THEN [E.names EXCEPT ![name] = o] ELSE E.names,
               [E.vals EXCEPT ![o] = value],
               [E.tab EXCEPT ![p][r] = [obj |-> o, refs |-> 1]])

\* sem_post on an open semaphore: one more.
sem_post(E, p, h) ==
  SemNorm(E.names, [E.vals EXCEPT ![SemOf(E, p, h)] = @ + 1], E.tab)

\* SetEvent on an auto-reset event: signaled.
SetEvent(E, p, h) ==
  SemNorm(E.names, [E.vals EXCEPT ![SemOf(E, p, h)] = 1], E.tab)

\* (mutant) a wait leaves the event signaled, as a manual-reset event does.
sem_take_ManualReset(E, p, h) == E

\* A wait that finds the object signaled takes the signal: sem_wait and
\* sem_timedwait take one, WaitForSingleObject resets the auto-reset event.
sem_take(E, p, h) ==
  SemNorm(E.names, [E.vals EXCEPT ![SemOf(E, p, h)] = @ - 1], E.tab)

\* sem_close / CloseHandle on an open handle.
sem_close(E, p, h) ==
  SemNorm(E.names, E.vals,
          [E.tab EXCEPT ![p][h] =
             IF @.refs > 1 THEN [@ EXCEPT !.refs = @ - 1] ELSE NoEnt])

\* sem_unlink(name): the name goes, the object stays while it is open.
sem_unlink(E, name) ==
  IF name \in Names /\ E.names[name] # 0
  THEN SemNorm([E.names EXCEPT ![name] = 0], E.vals, E.tab)
  ELSE E

\* A shared memory object exists while it has a name, an open descriptor or
\* handle, or a mapped page.
ShmLive(o, names, tab, pgs) ==
  \/ \E n \in Names : names[n] = o
  \/ \E p \in Procs : \E f \in Fds : tab[p][f] = o
  \/ \E p \in Procs : \E g \in Pages : pgs[p][g].obj = o

\* Windows: a file mapping's name goes with its last handle and view.
ShmNamesOf(names, tab, pgs) ==
  IF build = "win32"
  THEN [n \in Names |->
          IF \/ \E p \in Procs : \E f \in Fds : tab[p][f] = names[n]
             \/ \E p \in Procs : \E g \in Pages : pgs[p][g].obj = names[n]
          THEN names[n] ELSE 0]
  ELSE names

ShmSizesOf(sizes, names, tab, pgs) ==
  [o \in ShmObjs |-> IF ShmLive(o, names, tab, pgs) THEN sizes[o] ELSE 0]

ShmNorm(names, sizes, tab, pgs) ==
  [names |-> ShmNamesOf(names, tab, pgs),
   sizes |-> ShmSizesOf(sizes, ShmNamesOf(names, tab, pgs), tab, pgs),
   tab |-> tab,
   pgs |-> pgs]

ShmState == [names |-> shmName, sizes |-> shmSize, tab |-> fdt, pgs |-> pages]

SetShm(S) ==
  /\ shmName' = S.names
  /\ shmSize' = S.sizes
  /\ fdt' = S.tab
  /\ pages' = S.pgs

DeadShms(S) == {o \in ShmObjs : ~ShmLive(o, S.names, S.tab, S.pgs)}
FreeFds(S, p) == {f \in Fds : S.tab[p][f] = 0}
ShmOf(S, p, h) == IF h \in Fds /\ S.tab[p][h] > 0 THEN S.tab[p][h] ELSE 0
Span(a, size) == {g \in Pages : a <= g /\ g < a + size}
FreeSpans(S, p, size) ==
  {a \in Pages : /\ size >= 1
                 /\ a + size - 1 <= MaxPage
                 /\ \A g \in Span(a, size) : S.pgs[p][g].obj = 0}

\* shm_open(name, O_CREAT | O_RDWR, 0666): the descriptor a successful call
\* returns is the lowest one free.  The empty name is refused (EINVAL).
shm_open_fds(S, p, name) ==
  IF name \notin Names \/ FreeFds(S, p) = {} THEN {}
  ELSE IF S.names[name] = 0 /\ DeadShms(S) = {} THEN {}
  ELSE {Min(FreeFds(S, p))}

\* The state after shm_open returned fd: an existing object is opened as it
\* is, a new one has size 0.
shm_open(S, p, name, fd) ==
  IF S.names[name] # 0
  THEN ShmNorm(S.names, S.sizes, [S.tab EXCEPT ![p][fd] = S.names[name]], S.pgs)
  ELSE LET o == Min(DeadShms(S)) IN
       ShmNorm([S.names EXCEPT ![name] = o], [S.sizes EXCEPT ![o] = 0],
               [S.tab EXCEPT ![p][fd] = o], S.pgs)

\* ftruncate(fd, size) succeeding on a descriptor of a shared memory object.
ftruncate(S, p, fd, size) ==
  IF ShmOf(S, p, fd) # 0
  THEN ShmNorm(S.names, [S.sizes EXCEPT ![ShmOf(S, p, fd)] = size], S.tab, S.pgs)
  ELSE S

\* close(fd) / CloseHandle(h): an open one is closed, any other number is
\* refused (EBADF) and nothing changes.
close(S, p, fd) ==
  IF fd \in Fds /\ S.tab[p][fd] # 0
  THEN ShmNorm(S.names, S.sizes, [S.tab EXCEPT ![p][fd] = 0], S.pgs)
  ELSE S

\* shm_unlink(name): the name goes, the object stays while it is in use.
shm_unlink(S, name) ==
  IF name \in Names /\ S.names[name] # 0
  THEN ShmNorm([S.names EXCEPT ![name] = 0], S.sizes, S.tab, S.pgs)
  ELSE S

\* mmap(nullptr, size, PROT_READ | PROT_WRITE, MAP_SHARED, fd, 0): the
\* addresses a successful call may return.  The length is not checked against
\* the object's size.
mmap_addrs(S, p, fd, size) ==
  IF ShmOf(S, p, fd) = 0 THEN {} ELSE FreeSpans(S, p, size)

mmap(S, p, fd, size, a) ==
  ShmNorm(S.names, S.sizes, S.tab,
          [S.pgs EXCEPT ![p] =
             [g \in Pages |-> IF g \in Span(a, size)
                              THEN [obj |-> ShmOf(S, p, fd), base |-> a]
                              ELSE @[g]]])

\* munmap(addr, length): length 0 is refused (EINVAL); otherwise every page
\* of the range is unmapped, whatever was mapped there.
munmap(S, p, a, size) ==
  IF size = 0 THEN S
  ELSE ShmNorm(S.names, S.sizes, S.tab,
               [S.pgs EXCEPT ![p] =
                  [g \in Pages |-> IF g \in Span(a, size) THEN NoPage ELSE @[g]]])

\* CreateFileMappingA(INVALID_HANDLE_VALUE, nullptr, PAGE_READWRITE, 0, size,
\* name): the handles a successful call may return (never 0).  An existing
\* name is opened with the size it has; the empty name makes an object
\* without a name.
CreateFileMappingA_handles(S, p, name) ==
  IF name \in Names /\ S.names[name] # 0 THEN FreeFds(S, p) \ {0}
  ELSE IF DeadShms(S) = {} THEN {} ELSE FreeFds(S, p) \ {0}

CreateFileMappingA(S, p, name, size, r) ==
  IF name \in Names /\ S.names[name] # 0
  THEN ShmNorm(S.names, S.sizes, [S.tab EXCEPT ![p][r] = S.names[name]], S.pgs)
  ELSE LET o == Min(DeadShms(S)) IN
       ShmNorm(IF name \in Names THEN [S.names EXCEPT ![name] = o] ELSE S.names,
               [S.sizes EXCEPT ![o] = size],
               [S.tab EXCEPT ![p][r] = o], S.pgs)

\* MapViewOfFile(h, FILE_MAP_ALL_ACCESS, 0, 0, size): the base addresses a
\* successful call may return; a view larger than the object is refused.
MapViewOfFile_addrs(S, p, h, size) ==
  IF ShmOf(S, p, h) = 0 \/ size > S.sizes[ShmOf(S, p, h)] THEN {}
  ELSE FreeSpans(S, p, size)

MapViewOfFile(S, p, h, size, a) ==
  ShmNorm(S.names, S.sizes, S.tab,
          [S.pgs EXCEPT ![p] =
             [g \in Pages |-> IF g \in Span(a, size)
                              THEN [obj |-> ShmOf(S, p, h), base |-> a]
                              ELSE @[g]]])

\* UnmapViewOfFile(addr): the whole view whose base address is addr; any
\* other address is refused.
UnmapViewOfFile(S, p, a) ==
  IF a \in Pages /\ S.pgs[p][a].obj # 0 /\ S.pgs[p][a].base = a
  THEN ShmNorm(S.names, S.sizes, S.tab,
               [S.pgs EXCEPT ![p] =
                  [g \in Pages |-> IF @[g].base = a THEN NoPage ELSE @[g]]])
  ELSE S

\* The end of a process (here: by a fault): the system closes what it held.
ExitSem(E, p) ==
  SemNorm(E.names, E.vals, [E.tab EXCEPT ![p] = [a \in SemAddrs |-> NoEnt]])

ExitShm(S, p) ==
  ShmNorm(S.names, S.sizes, [S.tab EXCEPT ![p] = [f \in Fds |-> 0]],
          [S.pgs EXCEPT ![p] = [g \in Pages |-> NoPage]])

\* ------------------------------------------------------------ the start
NoCall == Call("", "P", NullName, 0, 0, 0, FALSE, 0, FALSE, 0, "", <<>>)

InitOs ==
  /\ build \in Builds
  /\ pc = [p \in Procs |-> "idle"]
  /\ semName = [n \in Names |-> 0]
  /\ semVal = [o \in SemObjs |-> 0]
  /\ semH = [p \in Procs |-> [a \in SemAddrs |-> NoEnt]]
  /\ blk = [p \in Procs |-> NoBlk]
  /\ quiet = [p \in Procs |-> [a \in SemAddrs |-> "no"]]
  /\ credit = [o \in SemObjs |-> 0]
  /\ shmName = [n \in Names |-> 0]
  /\ shmSize = [o \in ShmObjs |-> 0]
     \* Descriptors 1 and 2 are open; a POSIX process may have been started
     \* with descriptor 0 closed.  A Windows handle is never 0.
  /\ \E stdin \in [Procs -> BOOLEAN] :
       /\ build = "win32" => \A p \in Procs : stdin[p]
       /\ fdt = [p \in Procs |->
                   [f \in Fds |-> IF f \in StdFds /\ (f # 0 \/ stdin[p])
                                  THEN Stdio ELSE 0]]
  /\ pages = [p \in Procs |-> [g \in Pages |-> NoPage]]
  /\ closedS = [p \in Procs |-> {}]
  /\ last = NoCall

Init == InitOs /\ ts = NoTs

\* quiet kept to the handles that are open.
QuietOf(q, E) ==
  [p \in Procs |-> [a \in SemAddrs |->
     IF E.tab[p][a].obj = 0 THEN "no" ELSE q[p][a]]]

\* quiet after a signal on object o.
QuietAfterSignal(q, E, o) ==
  [p \in Procs |-> [a \in SemAddrs |->
     IF E.tab[p][a].obj = o THEN "no" ELSE q[p][a]]]

\* credit kept to the objects that exist.
CreditOf(c, E) ==
  [o \in SemObjs |-> IF SemLive(o, E.names, E.tab) THEN c[o] ELSE 0]

\* credit after a successful set_event on object o, and after a wait on o
\* that returned true.
CreditUp(c, o) == [c EXCEPT ![o] = IF @ < MaxCredit THEN @ + 1 ELSE @]
CreditDown(c, o) == [c EXCEPT ![o] = IF @ > -1 THEN @ - 1 ELSE @]

\* A call with undefined behaviour may end the process: everything it held
\* is closed by the system.
Crash(p, call) ==
  /\ pc' = [pc EXCEPT ![p] = "crashed"]
  /\ SetSem(ExitSem(SemState, p))
  /\ SetShm(ExitShm(ShmState, p))
  /\ quiet' = QuietOf(quiet, ExitSem(SemState, p))
  /\ credit' = CreditOf(credit, ExitSem(SemState, p))
  /\ blk' = [blk EXCEPT ![p] = NoBlk]
  /\ last' = [call EXCEPT !.outcome = "Crashed"]
  /\ UNCHANGED <<build, ts, closedS>>

\* ------------------------------------------------- the event functions
\* (mutant) every event starts signaled.
InitialValue_AlwaysOne(initial_state) == 1

\* sem_open's initial value: initial_state ? 1 : 0.
InitialValue(initial_state) == IF initial_state THEN 1 ELSE 0

\* create_event's check of its argument.
CreateEventRejects(name) == name = NullName

create_event(p, name, initial_state) ==
  /\ pc[p] = "idle"
  /\ IF CreateEventRejects(name)
     THEN /\ last' = EvCall("create_event", p, name, 0, initial_state, 0,
                            FALSE, 0, "", <<>>)
          /\ UNCHANGED <<semName, semVal, semH, quiet, credit>>
     ELSE \E r \in {0} \cup (IF build = "win32"
                            THEN CreateEventA_handles(SemState, p, name)
                            ELSE sem_open_addrs(SemState, p, name)) :
            LET E == IF r = 0 THEN SemState
                     ELSE IF build = "win32"
                     THEN CreateEventA(SemState, p, name,
                                       InitialValue(initial_state), r)
                     ELSE sem_open(SemState, p, name,
                                   InitialValue(initial_state), r)
                how == IF initial_state THEN "no"
                       ELSE IF name \in Names /\ semName[name] # 0
                       THEN "attached" ELSE "created"
            IN /\ SetSem(E)
               /\ quiet' = IF r = 0 THEN quiet
                           ELSE QuietOf([quiet EXCEPT ![p][r] = how], E)
               /\ credit' =
                    IF r = 0 THEN credit
                    ELSE IF name \in Names /\ semName[name] # 0
                    THEN CreditOf(credit, E)
                    ELSE CreditOf([credit EXCEPT ![Min(DeadSems(SemState))] =
                                     InitialValue(initial_state)], E)
               /\ last' = EvCall("create_event", p, name, 0, initial_state, 0,
                                 FALSE, r, "",
                                 IF build = "win32" THEN <<"CreateEventA">>
                                 ELSE IF r = 0 THEN <<"sem_open", "perror">>
                                 ELSE <<"sem_open">>)
  /\ UNCHANGED <<build, ts, pc, blk, shmVars>>

\* Handle arguments: nullptr, or any address (open in this process or not).
EventArgs == {0} \cup SemAddrs

\* (mutant) the system call's result is not looked at.
SetEventResult_Always(rc) == TRUE

\* set_event's return value from the system call's result.
SetEventResult(rc) == rc = 0

set_event(p, event) ==
  /\ pc[p] = "idle"
  /\ LET o == SemOf(SemState, p, event)
         call(ok, os) == EvCall("set_event", p, NullName, event, FALSE, 0,
                                ok, 0, "", os)
     IN
     IF event = 0
     THEN /\ last' = call(FALSE, <<>>)
          /\ UNCHANGED <<pc, semName, semVal, semH, blk, quiet, credit,
                         shmVars>>
     ELSE IF build = "win32"
     THEN \* SetEvent: an invalid handle is refused
          /\ SetSem(IF o # 0 THEN SetEvent(SemState, p, event) ELSE SemState)
          /\ quiet' = IF o # 0 THEN QuietAfterSignal(quiet, SemState, o) ELSE quiet
          /\ credit' = IF o # 0 THEN CreditUp(credit, o) ELSE credit
          /\ last' = call(o # 0, <<"SetEvent">>)
          /\ UNCHANGED <<pc, blk, shmVars>>
     ELSE IF o # 0
     THEN /\ semVal[o] < MaxSemVal
          /\ SetSem(sem_post(SemState, p, event))
          /\ quiet' = QuietAfterSignal(quiet, SemState, o)
          /\ credit' = CreditUp(credit, o)
          /\ last' = call(SetEventResult(0), <<"sem_post">>)
          /\ UNCHANGED <<pc, blk, shmVars>>
     ELSE \* sem_post on memory that is no open semaphore: undefined
          \/ /\ last' = call(SetEventResult(-1), <<"sem_post">>)
             /\ UNCHANGED <<pc, semName, semVal, semH, blk, quiet, credit,
                         shmVars>>
          \/ Crash(p, call(FALSE, <<"sem_post">>))
  /\ UNCHANGED <<build, ts, ts>>

\* wait_for_event's choice of the untimed wait.
UntimedWait(timeout_ms) == timeout_ms = INFINITE

\* The system call wait_for_event makes.
WaitOs(timeout_ms) ==
  IF build = "win32" THEN <<"WaitForSingleObject">>
  ELSE IF UntimedWait(timeout_ms) THEN <<"sem_wait">>
  ELSE <<"clock_gettime", "sem_timedwait">>

\* (mutant) result != WAIT_FAILED.
WaitResult_NotFailed(outcome) == outcome # "Failed"

\* wait_for_event's return value from how the system call ended:
\* sem_wait(...) == 0, sem_timedwait(...) == 0, result == WAIT_OBJECT_0.
WaitResult(outcome) == outcome = "Signaled"

WaitCallRec(p, event, timeout_ms, outcome, os) ==
  EvCall("wait_for_event", p, NullName, event, FALSE, timeout_ms,
         WaitResult(outcome), 0, outcome, os)

\* wait_for_event is called: it returns at once for nullptr, for a signaled
\* object and for an invalid handle, and blocks otherwise.
wait_for_event(p, event, timeout_ms) ==
  /\ pc[p] = "idle"
  /\ LET o == SemOf(SemState, p, event) IN
     IF event = 0
     THEN /\ last' = WaitCallRec(p, event, timeout_ms, "Failed", <<>>)
          /\ UNCHANGED <<pc, semName, semVal, semH, blk, quiet, credit,
                         shmVars>>
     ELSE IF o # 0 /\ semVal[o] > 0
     THEN /\ SetSem(sem_take(SemState, p, event))
          /\ credit' = CreditDown(credit, o)
          /\ last' = WaitCallRec(p, event, timeout_ms, "Signaled",
                                 WaitOs(timeout_ms))
          /\ UNCHANGED <<pc, blk, quiet, shmVars>>
     ELSE IF o # 0
     THEN /\ pc' = [pc EXCEPT ![p] = "blocked"]
          /\ blk' = [blk EXCEPT ![p] = [h |-> event, t |-> timeout_ms]]
          /\ last' = WaitCallRec(p, event, timeout_ms, "Blocked",
                                 WaitOs(timeout_ms))
          /\ UNCHANGED <<semName, semVal, semH, quiet, credit, shmVars>>
     ELSE IF build = "win32"
     THEN \* WAIT_FAILED
          /\ last' = WaitCallRec(p, event, timeout_ms, "Failed",
                                 WaitOs(timeout_ms))
          /\ UNCHANGED <<pc, semName, semVal, semH, blk, quiet, credit,
                         shmVars>>
     ELSE \* a wait on memory that is no open semaphore: undefined
          \/ /\ last' = WaitCallRec(p, event, timeout_ms, "Failed",
                                    WaitOs(timeout_ms))
             /\ UNCHANGED <<pc, semName, semVal, semH, blk, quiet, credit,
                         shmVars>>
          \/ Crash(p, WaitCallRec(p, event, timeout_ms, "Failed",
                                  WaitOs(timeout_ms)))
  /\ UNCHANGED <<build, ts, ts>>

\* A blocked wait returns because the object became signaled.
wait_signaled(p) ==
  /\ pc[p] = "blocked"
  /\ semVal[SemOf(SemState, p, blk[p].h)] > 0
  /\ SetSem(sem_take(SemState, p, blk[p].h))
  /\ credit' = CreditDown(credit, SemOf(SemState, p, blk[p].h))
  /\ pc' = [pc EXCEPT ![p] = "idle"]
  /\ blk' = [blk EXCEPT ![p] = NoBlk]
  /\ last' = WaitCallRec(p, blk[p].h, blk[p].t, "Signaled", WaitOs(blk[p].t))
  /\ UNCHANGED <<build, ts, quiet, shmVars>>

\* A blocked timed wait returns because its time is over.
wait_timed_out(p) ==
  /\ pc[p] = "blocked"
  /\ ~UntimedWait(blk[p].t)
  /\ pc' = [pc EXCEPT ![p] = "idle"]
  /\ blk' = [blk EXCEPT ![p] = NoBlk]
  /\ last' = WaitCallRec(p, blk[p].h, blk[p].t, "TimedOut", WaitOs(blk[p].t))
  /\ UNCHANGED <<build, ts, semName, semVal, semH, quiet, credit, shmVars>>

\* (mutant) the name is never unlinked.
CloseEventUnlinks_Never(name) == FALSE

\* close_event's check of its name: sem_unlink is skipped for nullptr.
CloseEventUnlinks(name) == name # NullName

close_event(p, event, name) ==
  /\ pc[p] = "idle"
  /\ LET o == SemOf(SemState, p, event)
         call(os) == EvCall("close_event", p, name, event, FALSE, 0,
                            FALSE, 0, "", os)
         unlinked(E) == IF CloseEventUnlinks(name) THEN sem_unlink(E, name)
                        ELSE E
         os == IF CloseEventUnlinks(name) THEN <<"sem_close", "sem_unlink">>
               ELSE <<"sem_close">>
     IN
     IF event = 0
     THEN /\ last' = call(<<>>)
          /\ UNCHANGED <<pc, semName, semVal, semH, blk, quiet, credit,
                         shmVars>>
     ELSE IF build = "win32"
     THEN LET E == IF o # 0 THEN sem_close(SemState, p, event) ELSE SemState IN
          /\ SetSem(E)
          /\ quiet' = QuietOf(quiet, E)
          /\ credit' = CreditOf(credit, E)
          /\ last' = call(<<"CloseHandle">>)
          /\ UNCHANGED <<pc, blk, shmVars>>
     ELSE IF o # 0
     THEN LET E == unlinked(sem_close(SemState, p, event)) IN
          /\ SetSem(E)
          /\ quiet' = QuietOf(quiet, E)
          /\ credit' = CreditOf(credit, E)
          /\ last' = call(os)
          /\ UNCHANGED <<pc, blk, shmVars>>
     ELSE \* sem_close on memory that is no open semaphore: undefined
          \/ /\ SetSem(unlinked(SemState))
             /\ credit' = CreditOf(credit, unlinked(SemState))
             /\ last' = call(os)
             /\ UNCHANGED <<pc, blk, quiet, shmVars>>
          \/ Crash(p, call(<<"sem_close">>))
  /\ UNCHANGED <<build, ts, ts>>

NextEvent ==
  \/ \E p \in Procs : \E name \in NameArgs : \E initial_state \in BOOLEAN :
       create_event(p, name, initial_state)
  \/ \E p \in Procs : \E event \in EventArgs : set_event(p, event)
  \/ \E p \in Procs : \E event \in EventArgs : \E timeout_ms \in Timeouts :
       wait_for_event(p, event, timeout_ms)
  \/ \E p \in Procs : wait_signaled(p)
  \/ \E p \in Procs : wait_timed_out(p)
  \/ \E p \in Procs : \E event \in EventArgs : \E name \in UnlinkArgs :
       close_event(p, event, name)

\* The event functions use no descriptor: their specification starts every
\* process with descriptor 0 open.
InitEvent == Init /\ \A p \in Procs : fdt[p][0] = Stdio

SpecEvent == InitEvent /\ [][NextEvent]_vars

\* The system wakes a blocked wait whose object is signaled.
FairEvent == \A p \in Procs : WF_vars(wait_signaled(p))

SpecEventFair == InitEvent /\ [][NextEvent]_vars /\ FairEvent

\* ------------------------------------------- the timed wait's deadline
\* timeout_ms is an unsigned int of 32 bits.  It is written here as the
\* integer of the same 32 bits read in two's complement: 0 .. 2^31 - 1 are
\* themselves, and 2^31 .. 2^32 - 1 are written -2^31 .. -1, so that
\* INFINITE, ((unsigned int)-1), is written -1.
\*
\* timeout_ms / 1000 and timeout_ms % 1000 in unsigned arithmetic, where
\* 2^32 = 4294967 * 1000 + 296.
TimeoutSec(timeout_ms) ==
  IF timeout_ms >= 0 THEN timeout_ms \div 1000
  ELSE 4294967 + ((timeout_ms + 296) \div 1000)

TimeoutMsec(timeout_ms) ==
  IF timeout_ms >= 0 THEN timeout_ms % 1000
  ELSE (timeout_ms + 296) % 1000

\* ts.tv_sec += timeout_ms / 1000;
\* ts.tv_nsec += (timeout_ms % 1000) * 1000000;
\* The product is at most 999000000 and the sum less than 2^31: neither the
\* unsigned int nor a long of 32 bits wraps.
AddTimeout(now, timeout_ms) ==
  [tv_sec |-> now.tv_sec + TimeoutSec(timeout_ms),
   tv_nsec |-> now.tv_nsec + TimeoutMsec(timeout_ms) * 1000000]

\* (mutant) > in place of >=.
Normalise_Strict(t) ==
  IF t.tv_nsec > 1000000000
  THEN [tv_sec |-> t.tv_sec + 1, tv_nsec |-> t.tv_nsec - 1000000000]
  ELSE t

\* if (ts.tv_nsec >= 1000000000) { ts.tv_sec += 1; ts.tv_nsec -= 1000000000; }
Normalise(t) ==
  IF t.tv_nsec >= 1000000000
  THEN [tv_sec |-> t.tv_sec + 1, tv_nsec |-> t.tv_nsec - 1000000000]
  ELSE t

\* The absolute time given to sem_timedwait.
Deadline(now, timeout_ms) == Normalise(AddTimeout(now, timeout_ms))

\* The unsigned int of value 1000 * q + r, as written here.
TimeoutOf(q, r) ==
  IF q < 2147483 \/ (q = 2147483 /\ r <= 647)
  THEN 1000 * q + r
  ELSE 1000 * (q - 4294966) + (r - 1296)

\* The readings of the clock and the timeouts tried: a timeout is 1000 * q + r
\* milliseconds, up to 2^32 - 1 = 1000 * 4294967 + 295.
ClockSecs == {0, 1700000000}
ClockNsecs == {0, 1, 999999, 1000000, 500000000, 999000000, 999999999}
TimeoutQs == {0, 1, 2147483, 4294966, 4294967}
TimeoutRs == {0, 1, 294, 295, 647, 648, 999}
TimeoutParts ==
  {x \in TimeoutQs \X TimeoutRs : x[1] < 4294967 \/ x[2] <= 295}

\* wait_for_event on POSIX is entered with a timeout, and clock_gettime
\* gives the time.
InitDeadline ==
  /\ InitOs
  /\ build = "posix"
  /\ \A p \in Procs : fdt[p][0] = Stdio
  /\ \E sec \in ClockSecs : \E nsec \in ClockNsecs : \E x \in TimeoutParts :
       ts = [NoTs EXCEPT !.sec = sec, !.nsec = nsec, !.q = x[1], !.r = x[2],
                         !.timeout_ms = TimeoutOf(x[1], x[2]),
                         !.path = "start"]

\* The else branch: the deadline is computed for sem_timedwait.
timed_wait_deadline ==
  /\ ts.path = "start"
  /\ ~UntimedWait(ts.timeout_ms)
  /\ LET d == Deadline([tv_sec |-> ts.sec, tv_nsec |-> ts.nsec],
                       ts.timeout_ms)
     IN ts' = [ts EXCEPT !.tv_sec = d.tv_sec, !.tv_nsec = d.tv_nsec,
                         !.path = "timed"]
  /\ UNCHANGED <<build, pc, evVars, shmVars, last>>

\* The then branch: sem_wait, no deadline.
untimed_wait ==
  /\ ts.path = "start"
  /\ UntimedWait(ts.timeout_ms)
  /\ ts' = [ts EXCEPT !.path = "untimed"]
  /\ UNCHANGED <<build, pc, evVars, shmVars, last>>

NextDeadline == timed_wait_deadline \/ untimed_wait

SpecDeadline == InitDeadline /\ [][NextDeadline]_vars

\* ----------------------------------------- the shared memory functions
\* Handle arguments: nullptr, or any descriptor number that is not one of the
\* process's standard streams (open in this process or not).
ShmArgs(p) == {0} \cup {h \in Fds : fdt[p][h] # Stdio}
MappedArgs == {0} \cup Pages

\* The pages of the mapping made at address a.
MappingAt(pgs, p, a) ==
  IF a \in Pages /\ pgs[p][a].obj # 0 /\ pgs[p][a].base = a
  THEN {g \in Pages : pgs[p][g].obj # 0 /\ pgs[p][g].base = a}
  ELSE {}

\* create_shared_memory's checks of its arguments.
CreateSharedMemoryRejects(name, size) == name = NullName \/ size = 0

\* (mutant) the object is sized one short.
AfterShmOpen_SizesShort(S, p, name, size, shm_fd, rc) ==
  IF rc = -1
  THEN [S |-> shm_unlink(close(S, p, shm_fd), name), ret |-> 0,
        os |-> <<"shm_open", "ftruncate", "perror", "close", "shm_unlink">>]
  ELSE [S |-> ftruncate(S, p, shm_fd, size - 1), ret |-> shm_fd,
        os |-> <<"shm_open", "ftruncate">>]

\* What create_shared_memory does once shm_open returned shm_fd and ftruncate
\* returned rc: the state, the return value and the calls made.
AfterShmOpen(S, p, name, size, shm_fd, rc) ==
  IF rc = -1
  THEN [S |-> shm_unlink(close(S, p, shm_fd), name), ret |-> 0,
        os |-> <<"shm_open", "ftruncate", "perror", "close", "shm_unlink">>]
  ELSE [S |-> ftruncate(S, p, shm_fd, size), ret |-> shm_fd,
        os |-> <<"shm_open", "ftruncate">>]

create_shared_memory(p, name, size) ==
  /\ pc[p] = "idle"
  /\ LET call(ret, os) == ShmCall("create_shared_memory", p, name, 0, 0, size,
                                  ret, "", os)
     IN
     IF CreateSharedMemoryRejects(name, size)
     THEN /\ last' = call(0, <<>>)
          /\ UNCHANGED <<shmName, shmSize, fdt, pages>>
     ELSE IF build = "win32"
     THEN \E r \in {0} \cup CreateFileMappingA_handles(ShmState, p, name) :
            /\ SetShm(IF r = 0 THEN ShmState
                      ELSE CreateFileMappingA(ShmState, p, name, size, r))
            /\ last' = call(r, <<"CreateFileMappingA">>)
     ELSE \E shm_fd \in {-1} \cup shm_open_fds(ShmState, p, name) :
            IF shm_fd = -1
            THEN /\ last' = call(0, <<"shm_open", "perror">>)
                 /\ UNCHANGED <<shmName, shmSize, fdt, pages>>
            ELSE \E rc \in {0, -1} :
                   LET R == AfterShmOpen(shm_open(ShmState, p, name, shm_fd),
                                         p, name, size, shm_fd, rc)
                   IN /\ SetShm(R.S)
                      /\ last' = call(R.ret, R.os)
  /\ UNCHANGED <<build, ts, pc, closedS, evVars>>

\* (mutant) the size is not checked.
MapSharedMemoryRejects_NoSizeCheck(shm, size) == shm = 0

\* map_shared_memory's checks of its arguments.
MapSharedMemoryRejects(shm, size) == shm = 0 \/ size = 0

\* (mutant) a failed mapping leaves the backing object open.
AfterMap_KeepsBacking(S, p, shm, size, ptr) ==
  IF build = "win32"
  THEN IF ptr = 0
       THEN [S |-> S, ret |-> 0, os |-> <<"MapViewOfFile">>]
       ELSE [S |-> MapViewOfFile(S, p, shm, size, ptr), ret |-> ptr,
             os |-> <<"MapViewOfFile">>]
  ELSE IF ptr = 0
       THEN [S |-> S, ret |-> 0, os |-> <<"mmap", "perror">>]
       ELSE [S |-> mmap(S, p, shm, size, ptr), ret |-> ptr,
             os |-> <<"mmap">>]

\* What map_shared_memory does once mmap / MapViewOfFile returned ptr (0: it
\* failed): the state, the return value and the calls made.
AfterMap(S, p, shm, size, ptr) ==
  IF build = "win32"
  THEN IF ptr = 0
       THEN [S |-> close(S, p, shm), ret |-> 0,
             os |-> <<"MapViewOfFile", "CloseHandle">>]
       ELSE [S |-> MapViewOfFile(S, p, shm, size, ptr), ret |-> ptr,
             os |-> <<"MapViewOfFile">>]
  ELSE IF ptr = 0
       THEN [S |-> close(S, p, shm), ret |-> 0,
             os |-> <<"mmap", "perror", "close">>]
       ELSE [S |-> mmap(S, p, shm, size, ptr), ret |-> ptr,
             os |-> <<"mmap">>]

map_shared_memory(p, shm, size) ==
  /\ pc[p] = "idle"
  /\ LET call(ret, os) == ShmCall("map_shared_memory", p, NullName, shm, 0,
                                  size, ret,
                                  IF ShmOf(ShmState, p, shm) # 0
                                  THEN "backed" ELSE "",
                                  os)
     IN
     IF MapSharedMemoryRejects(shm, size)
     THEN /\ last' = call(0, <<>>)
          /\ UNCHANGED <<shmName, shmSize, fdt, pages>>
     ELSE \E ptr \in {0} \cup (IF build = "win32"
                              THEN MapViewOfFile_addrs(ShmState, p, shm, size)
                              ELSE mmap_addrs(ShmState, p, shm, size)) :
            LET R == AfterMap(ShmState, p, shm, size, ptr)
            IN /\ SetShm(R.S)
               /\ last' = call(R.ret, R.os)
  /\ UNCHANGED <<build, ts, pc, closedS, evVars>>

\* (mutant) the backing object is closed before the mapping is unmapped.
CloseSharedMemoryRun_CloseFirst(S, p, shm, name, mapped, size) ==
  IF build = "win32"
  THEN IF mapped # 0
       THEN [S |-> UnmapViewOfFile(close(S, p, shm), p, mapped),
             os |-> <<"CloseHandle", "UnmapViewOfFile">>]
       ELSE [S |-> close(S, p, shm), os |-> <<"CloseHandle">>]
  ELSE LET S1 == close(S, p, shm)
           S2 == IF mapped # 0 THEN munmap(S1, p, mapped, size) ELSE S1
           os2 == IF mapped # 0 THEN <<"munmap">> ELSE <<>>
       IN IF name = NullName
          THEN [S |-> S2, os |-> <<"close">> \o os2]
          ELSE [S |-> shm_unlink(S2, name),
                os |-> <<"close">> \o os2 \o <<"shm_unlink">>]

\* (mutant) the name is never unlinked.
CloseSharedMemoryRun_NoUnlink(S, p, shm, name, mapped, size) ==
  IF build = "win32"
  THEN IF mapped # 0
       THEN [S |-> close(UnmapViewOfFile(S, p, mapped), p, shm),
             os |-> <<"UnmapViewOfFile", "CloseHandle">>]
       ELSE [S |-> close(S, p, shm), os |-> <<"CloseHandle">>]
  ELSE IF mapped # 0
       THEN [S |-> close(munmap(S, p, mapped, size), p, shm),
             os |-> <<"munmap", "close">>]
       ELSE [S |-> close(S, p, shm), os |-> <<"close">>]

\* What close_shared_memory does for a non-null shm: the state and the calls
\* made.
CloseSharedMemoryRun(S, p, shm, name, mapped, size) ==
  IF build = "win32"
  THEN IF mapped # 0
       THEN [S |-> close(UnmapViewOfFile(S, p, mapped), p, shm),
             os |-> <<"UnmapViewOfFile", "CloseHandle">>]
       ELSE [S |-> close(S, p, shm), os |-> <<"CloseHandle">>]
  ELSE LET S1 == IF mapped # 0 THEN munmap(S, p, mapped, size) ELSE S
           os1 == IF mapped # 0 THEN <<"munmap">> ELSE <<>>
           S2 == close(S1, p, shm)
       IN IF name = NullName
          THEN [S |-> S2, os |-> os1 \o <<"close">>]
          ELSE [S |-> shm_unlink(S2, name),
                os |-> os1 \o <<"close", "shm_unlink">>]

close_shared_memory(p, shm, name, mapped, size) ==
  /\ pc[p] = "idle"
  /\ LET call(os) == ShmCall("close_shared_memory", p, name, shm, mapped,
                             size, 0,
                             IF MappingAt(pages, p, mapped) # {}
                             THEN "mapping" ELSE "",
                             os)
     IN
     IF shm = 0
     THEN /\ last' = call(<<>>)
          /\ UNCHANGED <<shmName, shmSize, fdt, pages, closedS>>
     ELSE LET R == CloseSharedMemoryRun(ShmState, p, shm, name, mapped, size)
          IN /\ SetShm(R.S)
             /\ closedS' = [closedS EXCEPT ![p] = @ \cup {shm}]
             /\ last' = call(R.os)
  /\ UNCHANGED <<build, ts, pc, evVars>>

NextShm ==
  \/ \E p \in Procs : \E name \in NameArgs : \E size \in Sizes :
       create_shared_memory(p, name, size)
  \/ \E p \in Procs : \E shm \in ShmArgs(p) : \E size \in Sizes :
       map_shared_memory(p, shm, size)
  \/ \E p \in Procs : \E shm \in ShmArgs(p) : \E name \in UnlinkArgs :
       \E mapped \in MappedArgs : \E size \in Sizes :
         close_shared_memory(p, shm, name, mapped, size)

SpecShm == Init /\ [][NextShm]_vars

Next == NextEvent \/ NextShm \/ NextDeadline

Spec == Init /\ [][Next]_vars

\* ------------------------------------------------------------- the claims
\* The object behind handle h of process p, before and after the step.
ObjBefore(p, h) == IF h \in SemAddrs THEN semH[p][h].obj ELSE 0
ObjAfter(p, h) == IF h \in SemAddrs THEN semH'[p][h].obj ELSE 0

\* The step is a wait_for_event that returns (at once, or out of a block).
WaitReturns ==
  /\ last'.op = "wait_for_event"
  /\ last'.outcome \in {"Signaled", "TimedOut", "Failed"}

\* No wait is pending on object o.
NoWaiter(o) ==
  \A q \in Procs : pc[q] = "blocked" => ObjBefore(q, blk[q].h) # o

\* C3: signal is binary.  A successful set_event on an event that is already
\* signaled and has no waiter pending leaves the event's state unchanged, and
\* once a wait has returned Signaled the event is not signaled any more, so
\* that of two waits with no signal in between the second times out.
C3_SignalIsBinary ==
  [][ /\ ( /\ last'.op = "set_event" /\ last'.ok
           /\ semVal[ObjBefore(last'.p, last'.h)] > 0
           /\ NoWaiter(ObjBefore(last'.p, last'.h)) )
         => semVal' = semVal
      /\ ( WaitReturns /\ last'.outcome = "Signaled" )
         => semVal'[ObjAfter(last'.p, last'.h)] = 0 ]_vars

\* The round trip on the handles of the given kinds ("created": the call made
\* the object; "attached": the name existed): a finite wait on a handle that
\* create_event(name, false) returned, with no signal since, ends TimedOut
\* and returns false; a finite wait that the same process calls right after
\* its successful set_event on the handle ends Signaled and returns true.
RoundTrip(kinds) ==
  /\ ( /\ WaitReturns /\ ~UntimedWait(last'.timeout)
       /\ last'.h \in SemAddrs
       /\ quiet[last'.p][last'.h] \in kinds )
     => last'.outcome = "TimedOut" /\ ~last'.ok
  /\ ( /\ last.op = "set_event" /\ last.ok
       /\ last'.op = "wait_for_event" /\ ~UntimedWait(last'.timeout)
       /\ last'.p = last.p /\ last'.h = last.h )
     => last'.outcome = "Signaled" /\ last'.ok

\* C4 (as stated): the event round trip holds on the handle that
\* create_event(name, false) returns whether the name was absent or present.
C4_RoundTripAnyNamespace == [][RoundTrip({"created", "attached"})]_vars

\* C4 (amended): the event round trip holds on the handle that
\* create_event(name, false) returns when the name was absent, so that the
\* call created the object.
C4_RoundTripCreated == [][RoundTrip({"created"})]_vars

\* C4 witness: a finite wait on a handle of a newly created event has timed
\* out.
C4_Witness ==
  /\ last.op = "wait_for_event" /\ last.outcome = "TimedOut"
  /\ last.h \in SemAddrs
  /\ quiet[last.p][last.h] = "created"

\* C6: create_event with a null or an empty name returns nullptr without any
\* call of the operating system, and no object is created or opened.
C6_EmptyNameRejected ==
  [][ ( last'.op = "create_event" /\ last'.name \in {NullName, EmptyName} )
      => /\ last'.ret = 0
         /\ last'.os = <<>>
         /\ UNCHANGED <<semName, semVal, semH>> ]_vars

\* C9 (as stated): a wait that ends because the time is over and a wait that
\* ends because of an error (or a null handle) never return the same value.
C9_TimedOutIsNotFailed ==
  [][ ( /\ last.op = "wait_for_event" /\ last'.op = "wait_for_event"
        /\ {last.outcome, last'.outcome} = {"TimedOut", "Failed"} )
      => last.ok # last'.ok ]_vars

\* C9 (amended): wait_for_event returns one of two values: true exactly when
\* the wait ended because the event was signaled, false both when the time
\* is over and when the wait failed (or the handle is null).
C9_TrueOnlyWhenSignaled ==
  [][ WaitReturns => (last'.ok <=> last'.outcome = "Signaled") ]_vars

\* C9 witness: a timed wait on an open event has ended because the time was
\* over, and returned false.
C9_Witness ==
  /\ last.op = "wait_for_event" /\ last.outcome = "TimedOut"
  /\ ~last.ok
  /\ SemOf(SemState, last.p, last.h) # 0

\* The step is a close_event(handle, name) on a handle that is open, with a
\* name.
CloseEventWithName ==
  /\ last'.op = "close_event" /\ last'.name \in Names
  /\ ObjBefore(last'.p, last'.h) # 0

\* Some process has a handle of the event that bears the name n after the
\* step.
StillOpenAfter(n) ==
  \E q \in Procs : \E a \in SemAddrs : semH'[q][a].obj = semName[n]

\* A create_event on a name that is absent makes a new object whose state is
\* the call's initial_state.
CreatesAnew ==
  ( /\ last'.op = "create_event" /\ last'.name \in Names
    /\ semName[last'.name] = 0 /\ last'.ret # 0 )
  => /\ ObjAfter(last'.p, last'.ret) \in DeadSems(SemState)
     /\ semName'[last'.name] = ObjAfter(last'.p, last'.ret)
     /\ semVal'[ObjAfter(last'.p, last'.ret)] = InitialValue(last'.flag)

\* C11 (as stated): after close_event(handle, name) with a name, the name is
\* absent from the namespace, so that a later create_event with that name
\* makes a new object whose state is that call's initial_state.
C11_NameRemoved ==
  [][ /\ CloseEventWithName => semName'[last'.name] = 0
      /\ CreatesAnew ]_vars

\* C11 (amended): the same on POSIX; on Windows the name is absent after
\* close_event once no process has a handle of the event any more.
C11_NameRemovedWhenUnlinkedOrLast ==
  [][ /\ ( /\ CloseEventWithName
           /\ build = "win32" => ~StillOpenAfter(last'.name) )
         => semName'[last'.name] = 0
      /\ CreatesAnew ]_vars

\* C11 witness: on POSIX close_event with a name has removed the name of an
\* event that another handle still keeps open.
C11_Witness ==
  /\ build = "posix"
  /\ last.op = "close_event" /\ last.name \in Names /\ last.h # 0
  /\ last.outcome # "Crashed"
  /\ semName[last.name] = 0
  /\ \E q \in Procs : \E a \in SemAddrs : semH[q][a].obj # 0

\* C12: set_event returns false and changes no event's state when its handle
\* is null, and when its handle is the one the process has just passed to
\* close_event.
C12_SignalOnDestroyedFails ==
  [][ ( /\ last'.op = "set_event"
        /\ \/ last'.h = 0
           \/ /\ last.op = "close_event" /\ last.outcome # "Crashed"
              /\ last.p = last'.p /\ last.h = last'.h )
      => ~last'.ok /\ semVal' = semVal ]_vars

\* Process p is blocked in a wait without timeout on an object that is
\* signaled.
Pending(p) ==
  /\ pc[p] = "blocked" /\ UntimedWait(blk[p].t)
  /\ SemOf(SemState, p, blk[p].h) # 0
  /\ semVal[SemOf(SemState, p, blk[p].h)] > 0

\* A successful set_event leaves its object signaled.
SignalStays ==
  ( last'.op = "set_event" /\ last'.ok )
  => /\ ObjAfter(last'.p, last'.h) # 0
     /\ semVal'[ObjAfter(last'.p, last'.h)] > 0

\* A signal goes only to a wait that returns Signaled: the value of an
\* object that stays open falls only in a step in which a wait on it returns
\* true.
SignalKept ==
  \A o \in SemObjs :
    ( /\ semVal'[o] < semVal[o]
      /\ \E q \in Procs : \E a \in SemAddrs : semH'[q][a].obj = o )
    => /\ WaitReturns /\ last'.ok
       /\ ObjAfter(last'.p, last'.h) = o

\* C13: no lost signal.  A successful set_event leaves the object signaled,
\* the signal stays until a wait returns Signaled for it, and a wait without
\* timeout that is pending on a signaled object returns unless another wait
\* takes the signal.
C13_NoLostSignal ==
  /\ [][SignalStays /\ SignalKept]_vars
  /\ \A p \in Procs : Pending(p) ~> ~Pending(p)

\* C13 witness: set_event has succeeded on an object on which a wait without
\* timeout is pending.
C13_Witness ==
  /\ last.op = "set_event" /\ last.ok
  /\ \E q \in Procs : /\ Pending(q)
                       /\ SemOf(SemState, q, blk[q].h)
                            = SemOf(SemState, last.p, last.h)

\* C14: each signal releases at most one waiter.  For every event, the waits
\* on it that have returned Signaled are at most the successful signals on
\* it, plus one if it was created initially signaled.
C14_AtMostOnePerSignal == \A o \in SemObjs : credit[o] >= 0

\* C14 witness: a wait has returned Signaled on an event while another wait
\* is blocked, and every signal on the event has been used: the event is
\* not signaled and as many waits have returned Signaled as the claim
\* allows.
C14_Witness ==
  /\ last.op = "wait_for_event" /\ last.ok
  /\ \E q \in Procs : /\ pc[q] = "blocked"
                       /\ SemOf(SemState, q, blk[q].h)
                            = SemOf(SemState, last.p, last.h)
  /\ credit[SemOf(SemState, last.p, last.h)] = 0
  /\ semVal[SemOf(SemState, last.p, last.h)] = 0

\* A call made a system call of b before a system call of c.
Before(os, b, c) ==
  \E i, j \in 1..Len(os) : i < j /\ os[i] \in b /\ os[j] \in c

UnmapCalls == {"munmap", "UnmapViewOfFile"}
CloseCalls == {"close", "CloseHandle"}

\* The step is a map_shared_memory(shm, size) with a non-null shm and
\* size > 0 that returns nullptr: the mapping could not be made.
MapFails ==
  /\ last'.op = "map_shared_memory"
  /\ last'.h # 0 /\ last'.size > 0 /\ last'.ret = 0

\* C1 (amended): when map_shared_memory(shm, size) is called with a non-null
\* shm and size > 0 and the mapping cannot be made, it returns nullptr after
\* it has closed the backing handle itself: the handle is not open
\* afterwards.
C1_MapFailureClosesBacking ==
  [][ MapFails => /\ Before(last'.os, {"mmap", "MapViewOfFile"}, CloseCalls)
                  /\ fdt'[last'.p][last'.h] = 0 ]_vars

\* C1 witness: map_shared_memory failed on a backing handle that was open,
\* and the handle is closed.
C1_Witness ==
  /\ last.op = "map_shared_memory" /\ last.outcome = "backed"
  /\ last.h # 0 /\ last.size > 0 /\ last.ret = 0
  /\ fdt[last.p][last.h] = 0

\* C1 (as stated): when map_shared_memory(shm, size) is called with a
\* non-null shm and size > 0 and the mapping cannot be made, it returns
\* nullptr and the backing handle is untouched: still open, still the
\* caller's.
C1_MapFailureKeepsBacking ==
  [][ MapFails => fdt'[last'.p][last'.h] = fdt[last'.p][last'.h] ]_vars

\* C2: whenever create_shared_memory returns nullptr, the process holds no
\* open descriptor that the call obtained.
C2_FailureHoldsNoDescriptor ==
  [][ ( last'.op = "create_shared_memory" /\ last'.ret = 0 )
      => fdt'[last'.p] = fdt[last'.p] ]_vars

\* C5: attaching does not resize: a shared memory object keeps the size it
\* was created with through every later call.
C5_SizeFixedAtCreation ==
  [][ \A o \in ShmObjs :
        ( /\ ShmLive(o, shmName, fdt, pages)
          /\ ShmLive(o, shmName', fdt', pages') )
        => shmSize'[o] = shmSize[o] ]_vars

\* C7: create_shared_memory with a null name or size 0, and
\* map_shared_memory with a null shm or size 0, return nullptr and make no
\* call of the operating system: names, objects, descriptors and mappings
\* are as they were.
C7_InvalidArgumentsNoOsCall ==
  [][ ( \/ /\ last'.op = "create_shared_memory"
           /\ (last'.name = NullName \/ last'.size = 0)
        \/ /\ last'.op = "map_shared_memory"
           /\ (last'.h = 0 \/ last'.size = 0) )
      => /\ last'.ret = 0
         /\ last'.os = <<>>
         /\ UNCHANGED <<shmName, shmSize, fdt, pages>> ]_vars

\* C7 witness: map_shared_memory was called with an open backing object and
\* size 0.
C7_Witness ==
  /\ last.op = "map_shared_memory" /\ last.size = 0
  /\ last.h # 0 /\ fdt[last.p][last.h] > 0

\* C8: a second close_shared_memory on a handle the process has already
\* passed to it closes no descriptor that is open, whatever was created or
\* opened in between.
C8_SecondDestroyClosesNothing ==
  [][ ( /\ last'.op = "close_shared_memory"
        /\ last'.h # 0 /\ last'.h \in closedS[last'.p] )
      => fdt'[last'.p][last'.h] = fdt[last'.p][last'.h] ]_vars

\* The combined destroy, called with the address of a mapping, for the calls
\* that satisfy pre(shm, size, length of the mapping): the unmapping call is
\* made before the call that closes the backing object, and afterwards no
\* page of the mapping is mapped.
UnmapsFirst(pre(_, _, _)) ==
  ( /\ last'.op = "close_shared_memory"
    /\ last'.mapped # 0
    /\ MappingAt(pages, last'.p, last'.mapped) # {}
    /\ pre(last'.h, last'.size,
           Cardinality(MappingAt(pages, last'.p, last'.mapped))) )
  => /\ Before(last'.os, UnmapCalls, CloseCalls)
     /\ \A g \in MappingAt(pages, last'.p, last'.mapped) :
          pages'[last'.p][g].obj = 0

AnyCall(shm, size, len) == TRUE
CoveringCall(shm, size, len) == shm # 0 /\ (build = "posix" => size >= len)

\* C10 (as stated): every call of close_shared_memory with a non-null mapped
\* unmaps it, before the backing object's descriptor is closed.
C10_UnmapsFirstAlways == [][UnmapsFirst(AnyCall)]_vars

\* C10 (amended): every call of close_shared_memory with a non-null shm and a
\* non-null mapped whose size argument is (on POSIX) at least the length of
\* the mapping unmaps it, before the backing object's descriptor is closed.
C10_UnmapsFirstWhenCovered == [][UnmapsFirst(CoveringCall)]_vars

\* C10 witness: close_shared_memory was called with an open backing object
\* and the address of a mapping, unmapped and then closed, and the process
\* has no page mapped.
C10_Witness ==
  /\ last.op = "close_shared_memory" /\ last.outcome = "mapping"
  /\ last.h # 0 /\ last.mapped # 0
  /\ Before(last.os, UnmapCalls, CloseCalls)
  /\ \A g \in Pages : pages[last.p][g].obj = 0

\* The step is a create_shared_memory with a name and size > 0.
CreateCall ==
  /\ last'.op = "create_shared_memory"
  /\ last'.name \in Names /\ last'.size > 0

\* C15: for every name and size > 0, when the system calls succeed,
\* create_shared_memory returns a non-null handle, whatever descriptor the
\* system hands out, and map_shared_memory on an open handle returns a
\* mapping of exactly size.
C15_CreateAndMapSucceed ==
  [][ /\ ( CreateCall /\ last'.os = <<"shm_open", "ftruncate">> )
         => last'.ret # 0
      /\ ( /\ last'.op = "map_shared_memory" /\ last'.outcome = "backed"
           /\ last'.os \in {<<"mmap">>, <<"MapViewOfFile">>} )
         => /\ last'.ret # 0
            /\ Cardinality(MappingAt(pages', last'.p, last'.ret))
                 = last'.size ]_vars

Teardown ==
  /\ last'.op = "close_shared_memory" /\ last'.h # 0
  /\ last'.name \in Names
  /\ fdt[last'.p][last'.h] > 0
  /\ shmName[last'.name] = fdt[last'.p][last'.h]
  /\ \A f \in Fds : fdt[last'.p][f] = fdt[last'.p][last'.h] => f = last'.h
  /\ MappingAt(pages, last'.p, last'.mapped) # {}
  /\ last'.size = Cardinality(MappingAt(pages, last'.p, last'.mapped))
  /\ \A g \in Pages :
       pages[last'.p][g].obj = fdt[last'.p][last'.h]
       <=> g \in MappingAt(pages, last'.p, last'.mapped)

\* After the step the process of the call has no descriptor and no mapping
\* of the region that bore the name.
HoldsNothingAfter ==
  /\ \A f \in Fds : fdt'[last'.p][f] # shmName[last'.name]
  /\ \A g \in Pages : pages'[last'.p][g].obj # shmName[last'.name]

\* Another process has a descriptor or a mapping of the region that bears
\* the name.
OthersHold ==
  \E q \in Procs \ {last'.p} :
    \/ \E f \in Fds : fdt[q][f] = shmName[last'.name]
    \/ \E g \in Pages : pages[q][g].obj = shmName[last'.name]

\* A create_shared_memory on a name that is absent makes a region of the size
\* asked for.
CreatesOfSize ==
  ( CreateCall /\ last'.ret # 0 /\ shmName[last'.name] = 0 )
  => /\ fdt'[last'.p][last'.ret] > 0
     /\ shmSize'[fdt'[last'.p][last'.ret]] = last'.size

\* C17 (as stated): after the combined destroy of a region created and
\* mapped, the process holds no descriptor and no mapping of it and the name
\* is absent, so that a create_shared_memory with another size makes a
\* region of that size.
C17_TeardownRemovesAll ==
  [][ /\ Teardown => HoldsNothingAfter /\ shmName'[last'.name] = 0
      /\ CreatesOfSize ]_vars

\* C17 (amended): the same, with the name absent on POSIX always and on
\* Windows when no other process has the region open or mapped.
C17_TeardownRemovesOwn ==
  [][ /\ Teardown => /\ HoldsNothingAfter
                     /\ (build = "posix" \/ ~OthersHold)
                          => shmName'[last'.name] = 0
      /\ CreatesOfSize ]_vars

\* C17 witness: the combined destroy of a mapped region has been called
\* with its name; the name is absent and the process holds nothing.
C17_Witness ==
  /\ last.op = "close_shared_memory" /\ last.outcome = "mapping"
  /\ last.h # 0 /\ last.name \in Names
  /\ shmName[last.name] = 0
  /\ \A f \in Fds : fdt[last.p][f] <= 0
  /\ \A g \in Pages : pages[last.p][g].obj = 0

\* C18: a create_shared_memory that fails never removes a name that existed
\* before the call.
C18_FailedCreateKeepsName ==
  [][ ( /\ last'.op = "create_shared_memory" /\ last'.ret = 0
        /\ last'.name \in Names /\ shmName[last'.name] # 0 )
      => shmName'[last'.name] = shmName[last'.name] ]_vars

\* C19: in the POSIX timed wait, for every time (sec, nsec) of the clock
\* with 0 <= nsec < 10^9 and every timeout of 1000 * q + r milliseconds up to
\* 2^32 - 2, the deadline is the time of the clock plus q seconds and r
\* milliseconds, with 0 <= tv_nsec < 10^9; the timeout 2^32 - 1, and only
\* that, takes the wait without deadline.
C19_DeadlineExact ==
  /\ ts.path = "timed"
     => /\ ~(ts.q = 4294967 /\ ts.r = 295)
        /\ 0 <= ts.tv_nsec /\ ts.tv_nsec < 1000000000
        /\ ts.tv_sec - ts.sec - ts.q \in {0, 1}
        /\ (ts.tv_sec - ts.sec - ts.q) * 1000000000 + (ts.tv_nsec - ts.nsec)
             = ts.r * 1000000
  /\ ts.path = "untimed" => ts.q = 4294967 /\ ts.r = 295

\* C19 witness: a deadline has been computed for a timeout of 2^31
\* milliseconds or more, with a carry from the nanoseconds into the seconds.
C19_Witness ==
  /\ ts.path = "timed" /\ ts.timeout_ms < 0
  /\ ts.tv_sec = ts.sec + ts.q + 1

====
